---- MODULE Spec2Model ----
(***************************************************************************)
(* parse_mdefine.py: conversion of XSPEC mdefine lines to ISIS/S-Lang.     *)
(*                                                                         *)
(* Text is a sequence of tokens.  A token is either one non-word character *)
(* (a member of Punct) or a maximal run of word characters (a "word").     *)
(* Under this representation the regular expressions of the source read    *)
(* as follows: \bname\b matches exactly a token equal to name, \W matches  *)
(* exactly a Punct token, and str.split(c) splits at the tokens equal to   *)
(* c.  Indices of the bracket scan count tokens instead of characters; a   *)
(* word holds no bracket, so the scan meets the same brackets in the same  *)
(* order and runs off the end of the text in the same cases.               *)
(***************************************************************************)
EXTENDS Naturals, Integers, Sequences, FiniteSets, TLC

VARIABLES status, input, out, stdout, additive_functions, frame

vars == <<status, input, out, stdout, additive_functions, frame>>

(***************************************************************************)
(* Tokens                                                                  *)
(***************************************************************************)
Punct == {" ", "\n", ":", "(", ")", ",", "+", "*", "[", "]", "#", "&", ".",
          "/", "^", "%", ";"}

Whitespace == {" ", "\n"}

IsWord(t) == t \notin Punct

\* The words of the model's texts, by their number of characters.
WordsByLen ==
  << {"a", "b", "c", "e", "E", "1", "2", "6"},
     {"lo", "hi", "ln"},
     {"foo", "bar", "sin", "min", "max", "log", "exp", "add", "mul", "con"},
     {"norm", "junk"},
     {},
     {},
     {"mdefine"},
     {"powerlaw", "19920995"},
     {"eval_fun2"},
     {},
     {},
     {"energy_scale"} >>

\* The same words in the order Python sorts strings (by code point).
SortOrder ==
  << "1", "19920995", "2", "6", "E", "a", "add", "b", "bar", "c", "con", "e",
     "energy_scale", "eval_fun2", "exp", "foo", "hi", "junk", "ln", "lo",
     "log", "max", "mdefine", "min", "mul", "norm", "powerlaw", "sin" >>

\* Words whose first character is a digit: re.match('[0-9]', w[0]).
DigitWords == {"1", "19920995", "2", "6"}

Range(s) == {s[i] : i \in DOMAIN s}

\* len() of one token, in characters.
CharLen(t) ==
  IF t \in Punct THEN 1
  ELSE CHOOSE n \in DOMAIN WordsByLen : t \in WordsByLen[n]

\* len() of a text, in characters.
RECURSIVE StrLen(_)
StrLen(s) == IF s = <<>> THEN 0 ELSE CharLen(Head(s)) + StrLen(Tail(s))

(***************************************************************************)
(* Python string operations                                                *)
(***************************************************************************)
\* First index of a token of the set in s, 0 when there is none.
FirstIn(s, set) ==
  IF \A i \in DOMAIN s : s[i] \notin set THEN 0
  ELSE CHOOSE i \in DOMAIN s : s[i] \in set /\ \A j \in 1..(i - 1) : s[j] \notin set

\* re.search(r'\b' + name + r'\b', s): index of the first token equal to
\* name, 0 for no match.  re.search(r'\(', s) is Search(s, "(").
Search(s, name) == FirstIn(s, {name})

\* s[k:] for a 1-based k: the text after token k.
After(s, k) == SubSeq(s, k + 1, Len(s))

\* s.split(c) generalised to a set of separators; empty pieces are kept.
RECURSIVE SplitOnSet(_, _)
SplitOnSet(s, set) ==
  LET k == FirstIn(s, set)
  IN IF k = 0 THEN <<s>>
     ELSE <<SubSeq(s, 1, k - 1)>> \o SplitOnSet(After(s, k), set)

\* s.split(c)
Split(s, c) == SplitOnSet(s, {c})

\* s.split(): split at runs of whitespace, no empty pieces.
SplitWs(s) == SelectSeq(SplitOnSet(s, Whitespace), LAMBDA p : p # <<>>)

\* c.join(pieces)
RECURSIVE Join(_, _)
Join(pieces, c) ==
  IF pieces = <<>> THEN <<>>
  ELSE IF Len(pieces) = 1 THEN pieces[1]
  ELSE pieces[1] \o c \o Join(Tail(pieces), c)

\* s.strip()
RECURSIVE Strip(_)
Strip(s) ==
  IF s = <<>> THEN s
  ELSE IF Head(s) \in Whitespace THEN Strip(Tail(s))
  ELSE IF s[Len(s)] \in Whitespace THEN Strip(SubSeq(s, 1, Len(s) - 1))
  ELSE s

\* re.split('\W', p)[-1]: the word that ends p, '' (here <<>>) when p is
\* empty or ends with a non-word character.
LastWord(p) ==
  IF p = <<>> THEN <<>>
  ELSE IF IsWord(p[Len(p)]) THEN <<p[Len(p)]>> ELSE <<>>

\* Every token t of s replaced by the text r.
RECURSIVE Replace(_, _, _)
Replace(s, set, r) ==
  IF s = <<>> THEN <<>>
  ELSE (IF Head(s) \in set THEN r ELSE <<Head(s)>>) \o Replace(Tail(s), set, r)

\* The elements of s without repeats, each at its first occurrence.
RECURSIVE Dedup(_)
Dedup(s) ==
  IF s = <<>> THEN <<>>
  ELSE LET h == s[Len(s)]
           front == SubSeq(s, 1, Len(s) - 1)
       IN IF h \in Range(front) THEN Dedup(front) ELSE Dedup(front) \o <<h>>

(***************************************************************************)
(* Catalogues                                                              *)
(***************************************************************************)
\* The mathematical functions of mdefine.  The entry ' max' is written with
\* its leading blank, as the source writes it.
special_functions ==
  << "exp", "sin", "cos", "tan", "sinh", "cosh", "tanh", "sqrt", "abs",
     "asin", "acos", "atan", "asinh", "acosh", "atanh", "sind", "cosd",
     "tand", "heaviside", "boxcar", "sign", "mean", "atan2", "erf", "erfc",
     "log", "log10", "gamma", "min", " max", "smin", "smax" >>

\* The intrinsic XSPEC additive fit functions.
intrinsic_additive_functions ==
  << "agauss", "c6vmekl", "eqpair", "nei", "rnei", "vraymond", "agnsed",
     "carbatm", "eqtherm", "nlapec", "sedov", "vrnei", "agnslim", "cemekl",
     "equil", "npshock", "sirf", "vsedov", "apec", "cevmkl", "expdec", "nsa",
     "slimbh", "vtapec", "bapec", "cflow", "ezdiskbb", "nsagrav", "smaug",
     "vvapec", "bbody", "compLS", "gadem", "nsatmos", "snapec", "vvgnei",
     "bbodyrad", "compPS", "gaussian", "nsmax", "srcut", "vvnei", "bexrav",
     "compST", "gnei", "nsmaxg", "sresc", "vvnpshock", "bexriv", "compTT",
     "grad", "nsx", "ssa", "vvpshock", "bkn2pow", "compbb", "grbcomp",
     "nteea", "step", "vvrnei", "bknpower", "compmag", "grbjet", "nthComp",
     "tapec", "vvsedov", "bmc", "comptb", "grbm", "optxagn", "vapec",
     "vvtapec", "bremss", "compth", "hatm", "optxagnf", "vbremss", "vvwdem",
     "brnei", "cph", "jet", "pegpwrlw", "vcph", "vwdem", "btapec",
     "cplinear", "kerrbb", "pexmon", "vequil", "wdem", "bvapec", "cutoffpl",
     "kerrd", "pexrav", "vgadem", "zagauss", "bvrnei", "disk", "kerrdisk",
     "pexriv", "vgnei", "zbbody", "bvtapec", "diskbb", "kyrline", "plcabs",
     "vmcflow", "zbknpower", "bvvapec", "diskir", "laor", "posm", "vmeka",
     "zbremss", "bvvrnei", "diskline", "laor2", "powerlaw", "vmekal",
     "zcutoffpl", "bvvtapec", "diskm", "logpar", "pshock", "vnei", "zgauss",
     "bwcycl", "disko", "lorentz", "qsosed", "vnpshock", "zkerrbb", "c6mekl",
     "diskpbb", "meka", "raymond", "voigt", "zlogpar", "c6pmekl", "diskpn",
     "mekal", "redge", "vpshock", "zpowerlw", "c6pvmkl", "eplogpar",
     "mkcflow", "refsch" >>

\* The width a line of output may reach before it is divided.
LineWidth == 72

\* name in special_functions, for a word
IsSpecial(name) == \E i \in DOMAIN special_functions : special_functions[i] = name

\* name in additive_functions, for a word and a registry of names
IsAdditive(name, registry) == \E i \in DOMAIN registry : registry[i] = <<name>>

(***************************************************************************)
(* The bracket scan                                                        *)
(***************************************************************************)
\* i = 0; bracket_level = 1; while bracket_level > 0: ... i += 1
\* The value is the final i (the 1-based index of the closing bracket that
\* takes the level to 0), or 0 where func_expr[i] raises IndexError.
RECURSIVE BracketScan(_, _, _)
BracketScan(func_expr, i, bracket_level) ==
  IF i > Len(func_expr) THEN 0
  ELSE LET level == IF func_expr[i] = "(" THEN bracket_level + 1
                    ELSE IF func_expr[i] = ")" THEN bracket_level - 1
                    ELSE bracket_level
       IN IF level > 0 THEN BracketScan(func_expr, i + 1, level) ELSE i

Ok(s) == [err |-> "none", s |-> s]
Raise(e) == [err |-> e, s |-> <<>>]

(***************************************************************************)
(* min / max: the arguments are put in an array                            *)
(***************************************************************************)
\* The while loop over the matches of one name.
RECURSIVE MultiArgLoop(_, _, _)
MultiArgLoop(sub_func_name, new_func_expr, func_expr) ==
  LET match == Search(func_expr, sub_func_name)
  IN IF match = 0 THEN Ok(new_func_expr \o func_expr)
     ELSE LET new == new_func_expr \o SubSeq(func_expr, 1, match - 1)
                       \o <<sub_func_name, "(", "[">>
              rest == After(func_expr, match)
              open == Search(rest, "(")
          IN IF open = 0 THEN Raise("AttributeError")
             ELSE LET args == After(rest, open)
                      i == BracketScan(args, 1, 1)
                  IN IF i = 0 THEN Raise("IndexError")
                     ELSE MultiArgLoop(sub_func_name, new,
                            SubSeq(args, 1, i - 1) \o <<"]", ")">> \o After(args, i))

\* for sub_func_name in ['min','max']: ...
MultiArgRewrite(func_expr) ==
  LET r == MultiArgLoop("min", <<>>, func_expr)
  IN IF r.err # "none" THEN r ELSE MultiArgLoop("max", <<>>, r.s)

(***************************************************************************)
(* Names of functions and of parameters                                    *)
(***************************************************************************)
\* before_bracket and sub_func_names: the word that ends each piece of
\* func_expr.split('('), the piece after the last bracket included.
SubFuncNames(func_expr) ==
  LET pieces == Split(func_expr, "(")
      before_bracket == [k \in DOMAIN pieces |-> LastWord(pieces[k])]
      named == SelectSeq(before_bracket, LAMBDA w : w # <<>>)
  IN [k \in DOMAIN named |-> named[k][1]]

\* np.unique(names): without repeats, sorted.
Unique(names) == SelectSeq(SortOrder, LAMBDA w : w \in Range(names))

\* words, then pars: the words that do not start with a digit, are no
\* function name and not the energy, each once, in order of first use.
ExtractPars(func_expr, sub_func_names) ==
  LET words == SelectSeq(func_expr, LAMBDA t : IsWord(t) /\ t \notin DigitWords)
  IN Dedup(SelectSeq(words,
       LAMBDA w : w \notin Range(sub_func_names) /\ w # "e" /\ w # "E"))

(***************************************************************************)
(* Sub-functions: eval_fun2(&name,lo,hi, [...])                            *)
(***************************************************************************)
EvalFun2(sub_func_name) ==
  <<"eval_fun2", "(", "&", sub_func_name, ",", "lo", ",", "hi", ",", " ", "[">>

\* Variant: the normalisation goes to the intrinsic functions alone.
NormPrefix_IntrinsicOnly(sub_func_name, registry) ==
  IF sub_func_name \in Range(intrinsic_additive_functions)
  THEN <<"1", ",", " ">> ELSE <<>>

\* if sub_func_name in additive_functions: new_func_expr += '1, '
NormPrefix(sub_func_name, registry) ==
  IF IsAdditive(sub_func_name, registry) THEN <<"1", ",", " ">> ELSE <<>>

\* The while loop over the matches of one name.
RECURSIVE WrapLoop(_, _, _, _)
WrapLoop(sub_func_name, new_func_expr, func_expr, registry) ==
  LET match == Search(func_expr, sub_func_name)
  IN IF match = 0 THEN Ok(new_func_expr \o func_expr)
     ELSE LET new == new_func_expr \o SubSeq(func_expr, 1, match - 1)
                       \o EvalFun2(sub_func_name)
                       \o NormPrefix(sub_func_name, registry)
              rest == After(func_expr, match)
              open == Search(rest, "(")
          IN IF open = 0 THEN Raise("AttributeError")
             ELSE LET args == After(rest, open)
                      i == BracketScan(args, 1, 1)
                  IN IF i = 0 THEN Raise("IndexError")
                     ELSE WrapLoop(sub_func_name, new,
                            SubSeq(args, 1, i - 1) \o <<"]", ")">> \o After(args, i),
                            registry)

\* if sub_func_name not in special_functions: ...
ShouldWrap(sub_func_name) == ~IsSpecial(sub_func_name)

\* for sub_func_name in np.unique(sub_func_names): ...
RECURSIVE WrapAll(_, _, _)
WrapAll(names, func_expr, registry) ==
  IF names = <<>> THEN Ok(func_expr)
  ELSE IF ~ShouldWrap(Head(names)) THEN WrapAll(Tail(names), func_expr, registry)
  ELSE LET r == WrapLoop(Head(names), <<>>, func_expr, registry)
       IN IF r.err # "none" THEN r ELSE WrapAll(Tail(names), r.s, registry)

(***************************************************************************)
(* Energy, normalisation, layout                                           *)
(***************************************************************************)
\* '(6.19920995*(lo+hi)/lo/hi)'
EnergyExpr ==
  <<"(", "6", ".", "19920995", "*", "(", "lo", "+", "hi", ")", "/", "lo", "/",
    "hi", ")">>

\* Variant: the pattern is \be\b, the capital E is left.
EnergySubstitute_LowerOnly(func_expr) == Replace(func_expr, {"e"}, EnergyExpr)

\* re.sub(r'\b(e|E)\b', '(6.19920995*(lo+hi)/lo/hi)', func_expr)
EnergySubstitute(func_expr) == Replace(func_expr, {"e", "E"}, EnergyExpr)

\* if mtype == 'add': func_expr = '( '+func_expr+' )*norm'
Normalise(mtype, func_expr) ==
  IF mtype = <<"add">> THEN <<"(", " ">> \o func_expr \o <<" ", ")", "*", "norm">>
  ELSE func_expr

\* if mtype == 'add': pars = ['norm']+pars
NormPars(mtype, pars) == IF mtype = <<"add">> THEN <<"norm">> \o pars ELSE pars

\* ' +\n        '
Indent == <<"\n", " ", " ", " ", " ", " ", " ", " ", " ">>

\* Divide function expression if lines are too long.
DivideLines(func_expr) ==
  IF StrLen(func_expr) > LineWidth
  THEN Replace(Replace(func_expr, {"+"}, <<" ", "+">> \o Indent),
               {"*"}, <<" ", "*">> \o Indent)
  ELSE func_expr

RECURSIVE SumLen(_)
SumLen(pars) == IF pars = <<>> THEN 0 ELSE CharLen(Head(pars)) + SumLen(Tail(pars))

\* len('variable '+', '.join(pars)) > 72
DeclareDivided(pars) ==
  9 + SumLen(pars) + (IF pars = <<>> THEN 0 ELSE 2 * (Len(pars) - 1)) > LineWidth

\* len('["'+'","'.join(pars)+'"]') > 72
ParListDivided(pars) ==
  4 + SumLen(pars) + (IF pars = <<>> THEN 0 ELSE 3 * (Len(pars) - 1)) > LineWidth

(***************************************************************************)
(* interpret_line                                                          *)
(***************************************************************************)
\* The locals of a call of interpret_line that has not begun.
NoFrame ==
  [line |-> <<>>, err |-> "none", func_name |-> <<>>, mtype |-> <<>>,
   raw |-> <<>>, normalised |-> <<>>, multi |-> <<>>, sub_func_names |-> <<>>, pars |-> <<>>,
   wrapped |-> <<>>, energy |-> <<>>, func_expr |-> <<>>, written |-> <<>>]

\* func_name = line.split(' ')[1]
FuncName(line) == Split(line, " ")[2]

\* func_expr = ' '.join(line.split(':')[0].split(' ')[2:])
FuncExpr(line) == Join(Tail(Tail(Split(Split(line, ":")[1], " "))), <<" ">>)

\* mtype: 'add' if no type is given, else the text after the last colon
MType(line) ==
  LET pieces == Split(line, ":")
  IN IF Len(pieces) = 1 THEN <<"add">> ELSE Strip(pieces[Len(pieces)])

\* Variant: a name that is registered already is not appended again.
Register_NoRepeat(registry, mtype, func_name) ==
  IF mtype = <<"add">> /\ func_name \notin Range(registry)
  THEN Append(registry, func_name) ELSE registry

\* if mtype == 'add': additive_functions.append(func_name)
Register(registry, mtype, func_name) ==
  IF mtype = <<"add">> THEN Append(registry, func_name) ELSE registry

\* The text after the whitespace that s begins with.
RECURSIVE SkipWs(_)
SkipWs(s) == IF s # <<>> /\ Head(s) \in Whitespace THEN SkipWs(Tail(s)) ELSE s

\* re.sub(r'\*\s*\*', '^', s)
RECURSIVE SubPower(_)
SubPower(s) ==
  IF s = <<>> THEN <<>>
  ELSE LET rest == SkipWs(Tail(s))
       IN IF Head(s) = "*" /\ rest # <<>> /\ Head(rest) = "*"
          THEN <<"^">> \o SubPower(Tail(rest))
          ELSE <<Head(s)>> \o SubPower(Tail(s))

\* re.sub(r'\b' + name + r'\b\s*\(', repl + '(', s)
RECURSIVE SubCall(_, _, _)
SubCall(s, name, repl) ==
  IF s = <<>> THEN <<>>
  ELSE LET rest == SkipWs(Tail(s))
       IN IF Head(s) = name /\ rest # <<>> /\ Head(rest) = "("
          THEN <<repl, "(">> \o SubCall(Tail(rest), name, repl)
          ELSE <<Head(s)>> \o SubCall(Tail(s), name, repl)

\* Lines 57, 60 and 61 call re.sub for '**', log and ln and drop what it
\* returns (a str is immutable, and nothing is assigned): func_expr is
\* what it was.
OperatorsAndLogs(func_expr) ==
  LET dropped == <<SubPower(func_expr), SubCall(func_expr, "log", "log10"),
                   SubCall(func_expr, "ln", "log")>>
  IN func_expr

\* Lines 95 and 96 do the same for smin and smax.
ScalarMinMax(func_expr) ==
  LET dropped == <<SubCall(func_expr, "smin", "min"),
                   SubCall(func_expr, "smax", "max")>>
  IN func_expr

\* The out.write calls of one converted line.
Written(func_name, pars, func_expr) ==
  << [kind |-> "define", name |-> func_name, pars |-> pars, text |-> func_expr,
      divided |-> DeclareDivided(pars)],
     [kind |-> "register", name |-> func_name, pars |-> pars, text |-> <<>>,
      divided |-> ParListDivided(pars)] >>

\* additive_functions after the call interpret_line(line, out)
RegistryAfter(line, registry) ==
  IF Len(Split(line, " ")) < 2 THEN registry
  ELSE Register(registry, MType(line), FuncName(line))

\* The call interpret_line(line, out) with the registry as it stands: the
\* locals at the return, or at the statement that raises (err names the
\* exception); written is what the call wrote to out.
interpret_line(line, registry) ==
  LET f0 == [NoFrame EXCEPT !.line = line]
  IN IF Len(Split(line, " ")) < 2 THEN [f0 EXCEPT !.err = "IndexError"]
     ELSE
     LET func_name == FuncName(line)
         mtype == MType(line)
         raw == FuncExpr(line)
         normalised == OperatorsAndLogs(raw)
         f1 == [f0 EXCEPT !.func_name = func_name, !.mtype = mtype, !.raw = raw,
                          !.normalised = normalised]
         multi == MultiArgRewrite(normalised)
     IN IF multi.err # "none" THEN [f1 EXCEPT !.err = multi.err]
        ELSE
        LET arrays == ScalarMinMax(multi.s)
            sub_func_names == SubFuncNames(arrays)
            pars == ExtractPars(arrays, sub_func_names)
            f2 == [f1 EXCEPT !.multi = arrays,
                             !.sub_func_names = Unique(sub_func_names),
                             !.pars = pars]
            wrapped == WrapAll(Unique(sub_func_names), arrays,
                               RegistryAfter(line, registry))
        IN IF wrapped.err # "none" THEN [f2 EXCEPT !.err = wrapped.err]
           ELSE
           LET energy == EnergySubstitute(wrapped.s)
               allpars == NormPars(mtype, pars)
               func_expr == DivideLines(Normalise(mtype, energy))
           IN [f2 EXCEPT !.wrapped = wrapped.s, !.energy = energy,
                         !.pars = allpars, !.func_expr = func_expr,
                         !.written = Written(func_name, allpars, func_expr)]

(***************************************************************************)
(* The input                                                               *)
(***************************************************************************)
\* The number of lines of the input file.
MaxLines == 2

\* 'mdefine <name> <expr><tail>'
Directive(name, expr, tail) == <<"mdefine", " ", name, " ">> \o expr \o tail

Exprs ==
  { <<"b", "*", "a", "+", "b">>,
    <<"norm", "*", "a">>,
    <<"e", "*", "a">>,
    <<"min", "(", "e", ",", "energy_scale", ")">>,
    <<"max", "(", "a", ",", "b", ")">>,
    <<"min", "(", "[", "a", ",", "b", "]", ")">>,
    <<"foo", "(", "a", ")">>,
    <<"foo", "(", "E", ")", "+", "sin", "(", "b", ")">>,
    <<"bar", "(", "a", ")">>,
    <<"min", "(", "a", ",", "b">>,
    <<"foo", "(", "a">>,
    <<"log", "(", "a", ")", "*", "*", "ln", "(", "b", ")">>,
    <<"powerlaw", "(", "a", ")">>,
    <<"foo", "(", "min", "(", "a", ",", "E", ")", ")">>,
    <<"foo", "*", "bar", "(", "a", ")", "+", "foo", "(", "b", ")">> }

EdgeExprs ==
  { <<"b", "*", "a", "+", "b">>,
    <<"foo", "(", "a", ")">> }

\* Name and end of line: type by default, type given.
Heads ==
  { <<"foo", <<"\n">>>>,
    <<"bar", <<" ", ":", " ", "mul", "\n">>>> }

\* The same with a name that is a mathematical function, no space before
\* the colon, no end of line (the last line of a file).
EdgeHeads ==
  { <<"sin", <<"\n">>>>,
    <<"foo", <<" ", ":", " ", "add", "\n">>>>,
    <<"bar", <<":", "con">>>>,
    <<"foo", <<>> >> }

Directives ==
  {Directive(h[1], x, h[2]) : h \in Heads, x \in Exprs}
    \cup {Directive(h[1], x, h[2]) : h \in EdgeHeads, x \in EdgeExprs}

OtherLines ==
  { <<" ", "\n">>,
    <<"#", " ", "c", "\n">>,
    <<"#", "c", "\n">>,
    <<"junk", " ", "a", "\n">> }

Lines == Directives \cup OtherLines

(***************************************************************************)
(* convert_mdefine_file                                                    *)
(***************************************************************************)
\* '%%% Automatically translated by parse_mdefine (D. J. K. Buisson) %%%'
Header == [kind |-> "header", name |-> <<>>, pars |-> <<>>, text |-> <<>>,
           divided |-> FALSE]

CommentOut(line) ==
  [kind |-> "comment", name |-> <<>>, pars |-> <<>>, text |-> <<"%">> \o line,
   divided |-> FALSE]

IsBlank(line) == Len(SplitWs(line)) < 1
IsComment(line) == ~IsBlank(line) /\ SplitWs(line)[1] = <<"#">>
IsMdefine(line) == ~IsBlank(line) /\ ~IsComment(line) /\ SplitWs(line)[1] = <<"mdefine">>

Init ==
  /\ status = "start"
  /\ input = <<>>
  /\ out = <<>>
  /\ stdout = <<>>
  /\ additive_functions =
       [i \in DOMAIN intrinsic_additive_functions |-> <<intrinsic_additive_functions[i]>>]
  /\ frame = NoFrame

\* out = open(output_sl_file,'w'); out.write(header)
Open ==
  /\ status = "start"
  /\ status' = "reading"
  /\ out' = <<Header>>
  /\ UNCHANGED <<input, stdout, additive_functions, frame>>

\* if len(line.split())<1: pass
Blank(line) ==
  /\ status = "reading" /\ Len(input) < MaxLines
  /\ IsBlank(line)
  /\ input' = Append(input, line)
  /\ UNCHANGED <<status, out, stdout, additive_functions, frame>>

\* elif line.split()[0] == '#': out.write('%'+line)
Comment(line) ==
  /\ status = "reading" /\ Len(input) < MaxLines
  /\ IsComment(line)
  /\ input' = Append(input, line)
  /\ out' = Append(out, CommentOut(line))
  /\ UNCHANGED <<status, stdout, additive_functions, frame>>

\* elif line.split()[0] == 'mdefine': interpret_line(line,out)
\* An exception of interpret_line is caught nowhere: it ends the run.
Mdefine(line) ==
  /\ status = "reading" /\ Len(input) < MaxLines
  /\ IsMdefine(line)
  /\ LET f == interpret_line(line, additive_functions)
     IN /\ frame' = f
        /\ additive_functions' = RegistryAfter(line, additive_functions)
        /\ out' = out \o f.written
        /\ status' = IF f.err = "none" THEN "reading" ELSE "crashed"
  /\ input' = Append(input, line)
  /\ UNCHANGED stdout

\* else: print('Failed to parse line: "'+line+'"')
Unrecognised(line) ==
  /\ status = "reading" /\ Len(input) < MaxLines
  /\ ~IsBlank(line) /\ ~IsComment(line) /\ ~IsMdefine(line)
  /\ input' = Append(input, line)
  /\ stdout' = Append(stdout, line)
  /\ UNCHANGED <<status, out, additive_functions, frame>>

\* The end of the file: out.close()
Close ==
  /\ status = "reading"
  /\ status' = "closed"
  /\ UNCHANGED <<input, out, stdout, additive_functions, frame>>

Next ==
  \/ Open
  \/ \E line \in Lines : Blank(line)
  \/ \E line \in Lines : Comment(line)
  \/ \E line \in Lines : Mdefine(line)
  \/ \E line \in Lines : Unrecognised(line)
  \/ Close

Spec == Init /\ [][Next]_vars

(***************************************************************************)
(* Properties                                                              *)
(***************************************************************************)
\* pat occurs in s at index i
OccursAt(pat, s, i) == i + Len(pat) - 1 <= Len(s) /\ SubSeq(s, i, i + Len(pat) - 1) = pat

\* pat occurs in s
Occurs(pat, s) == \E i \in DOMAIN s : OccursAt(pat, s, i)

\* the expression calls name(...): the word, directly followed by a bracket
CallsTo(name, s) == \E i \in DOMAIN s : OccursAt(<<name, "(">>, s, i)

\* the words of a text
WordsOf(s) == {t \in Range(s) : IsWord(t)}

\* the brackets of s are balanced
RECURSIVE Depth(_, _)
Depth(s, n) ==
  IF n = 0 THEN 0
  ELSE Depth(s, n - 1) + (IF s[n] = "(" THEN 1 ELSE IF s[n] = ")" THEN -1 ELSE 0)

Balanced(s) == Depth(s, Len(s)) = 0 /\ \A n \in DOMAIN s : Depth(s, n) >= 0

\* The last line read was a directive: frame holds its call.
Interpreted == input # <<>> /\ IsMdefine(input[Len(input)])

\* ... and the call returned: the line is converted and written.
Converted == Interpreted /\ frame.err = "none"

\* The name and the type of a directive, read off the line: the word after
\* 'mdefine ', and Additive unless a type other than add follows a colon.
NameOf(line) == <<line[3]>>

IsAdditiveLine(line) ==
  \/ ":" \notin Range(line)
  \/ \E k \in DOMAIN line :
       /\ line[k] = ":" /\ \A j \in (k + 1)..Len(line) : line[j] # ":"
       /\ SelectSeq(After(line, k), LAMBDA t : t \notin Whitespace) = <<"add">>

\* An Additive model named N was defined by a line before the last one.
DefinedEarlier(N) ==
  \E k \in 1..(Len(input) - 1) :
    IsMdefine(input[k]) /\ NameOf(input[k]) = <<N>> /\ IsAdditiveLine(input[k])

\* The names that are scanned for call sites in an expression: min, max
\* and every word that stands before a bracket or ends the expression.
Scanned(s) == {"min", "max"} \cup Range(SubFuncNames(s))

\* Every occurrence of a scanned name is a call site.
OnlyCallSites(s) ==
  \A i \in DOMAIN s : s[i] \in Scanned(s) => i < Len(s) /\ s[i + 1] = "("

One == <<"1", ",", " ">>

SpecialFunctionSet ==
  { "exp", "sin", "cos", "tan", "sinh", "cosh", "tanh", "sqrt", "abs", "asin",
    "acos", "atan", "asinh", "acosh", "atanh", "sind", "cosd", "tand",
    "heaviside", "boxcar", "sign", "mean", "atan2", "erf", "erfc", "log",
    "log10", "gamma", "min", "max", "smin", "smax" }

\* C2: a call to a member of the SpecialFunctionSet is never rewritten into
\* eval_fun2(&name,lo,hi,[...]): no converted line emits a wrapped call
\* for a special function, max included.
C2_SpecialsNeverWrapped ==
  Converted =>
    \A name \in SpecialFunctionSet :
      ~Occurs(<<"eval_fun2", "(", "&", name>>, frame.func_expr)

\* C3: the emitted parameter list holds distinct names, in the order of
\* their first occurrence in the expression, with norm first for an
\* Additive model.
C3_ParametersDistinct ==
  Converted =>
    LET pars == frame.written[2].pars
        own == IF frame.mtype = <<"add">> THEN Tail(pars) ELSE pars
    IN /\ \A i, j \in DOMAIN pars : i # j => pars[i] # pars[j]
       /\ frame.mtype = <<"add">> => pars # <<>> /\ pars[1] = "norm"
       /\ \A i, j \in DOMAIN own :
            i < j => Search(frame.multi, own[i]) < Search(frame.multi, own[j])

\* C4: unbalanced brackets (the scan reaches the end of the text) abort the
\* conversion of that directive alone: the run goes on reading.
C4_UnbalancedAbortsOneLine ==
  Interpreted /\ frame.err = "IndexError" => status \in {"reading", "closed"}

\* C5: the min/max pass is idempotent: applied to its own output it
\* returns the same text.
C5_MultiArgIdempotent ==
  Interpreted /\ frame.multi # <<>>
    => MultiArgRewrite(frame.multi) = Ok(frame.multi)

\* the text en is the text w with EnergyExpr in the place of every token
\* e or E, and every other token in its place
RECURSIVE EnergyInPlace(_, _)
EnergyInPlace(w, en) ==
  IF w = <<>> THEN en = <<>>
  ELSE IF Head(w) \in {"e", "E"}
  THEN /\ OccursAt(EnergyExpr, en, 1)
       /\ EnergyInPlace(Tail(w), SubSeq(en, Len(EnergyExpr) + 1, Len(en)))
  ELSE /\ en # <<>> /\ Head(en) = Head(w)
       /\ EnergyInPlace(Tail(w), Tail(en))

\* C6: the energy substitution puts (6.19920995*(lo+hi)/lo/hi) in the
\* place of every token e or E of the rewritten expression, whatever the
\* bracket depth, leaves every other token (energy_scale too) as it is,
\* and no token e or E is left in what is emitted.
C6_EnergySubstituted ==
  Converted =>
    /\ EnergyInPlace(frame.wrapped, frame.energy)
    /\ \A i \in DOMAIN frame.func_expr : frame.func_expr[i] \notin {"e", "E"}

\* C6 witness: a converted line with E inside min(...) inside a wrapped
\* call, and one with e next to energy_scale.
C6_Witness ==
  /\ Converted
  /\ \/ /\ "energy_scale" \in Range(frame.energy)
        /\ "e" \in Range(frame.wrapped)
     \/ /\ Occurs(<<"min", "(", "[", "a", ",", "E", "]", ")", "]", ")">>, frame.wrapped)
  /\ Occurs(EnergyExpr, frame.energy)

\* the definitions and registrations written so far
Definitions == SelectSeq(out, LAMBDA r : r.kind \in {"define", "register"})

\* C7: the output is the header, then for each mdefine directive of the
\* input one definition followed by its registration, in input order; an
\* unrecognised line adds nothing and does not stop the run.
C7_OneDefinitionPerDirective ==
  status # "start" =>
    LET dirs == SelectSeq(input, IsMdefine)
    IN /\ out # <<>> /\ out[1] = Header
       /\ Len(Definitions) = 2 * Len(dirs)
       /\ \A k \in DOMAIN dirs :
            /\ Definitions[2 * k - 1].kind = "define"
            /\ Definitions[2 * k - 1].name = NameOf(dirs[k])
            /\ Definitions[2 * k].kind = "register"
            /\ Definitions[2 * k].name = NameOf(dirs[k])
       /\ Len(stdout) = Len(SelectSeq(input,
            LAMBDA l : ~IsBlank(l) /\ ~IsComment(l) /\ ~IsMdefine(l)))

\* the names of the Additive directives of a sequence of lines, in order
RECURSIVE AdditiveNames(_)
AdditiveNames(lines) ==
  IF lines = <<>> THEN <<>>
  ELSE (IF IsMdefine(Head(lines)) /\ IsAdditiveLine(Head(lines))
        THEN <<NameOf(Head(lines))>> ELSE <<>>) \o AdditiveNames(Tail(lines))

\* C8: the registry is the intrinsic list followed by the names of the
\* Additive directives processed so far, in line order, repeats kept;
\* other lines leave it as it is.
C8_RegistryAppendOnly ==
  additive_functions =
    [i \in DOMAIN intrinsic_additive_functions |-> <<intrinsic_additive_functions[i]>>]
      \o AdditiveNames(input)

\* C8 witness: the same Additive name defined twice, and entered twice.
C8_Witness ==
  /\ Len(additive_functions) = Len(intrinsic_additive_functions) + 2
  /\ additive_functions[Len(additive_functions)]
       = additive_functions[Len(additive_functions) - 1]

\* C9: the expression handed to the min/max pass has ^ for every '**',
\* log10( for every log( and log( for every ln(.
C9_OperatorsNormalised ==
  Interpreted =>
    frame.normalised
      = SubCall(SubCall(SubPower(frame.raw), "log", "log10"), "ln", "log")

\* C10: a name X that the expression uses without a call X(...) is not
\* wrapped, the conversion completes, and X is a parameter unless it is the
\* energy or starts with a digit (expressions with balanced brackets).
C10_BareNamesAreParameters ==
  Interpreted /\ Balanced(frame.raw) =>
    \A X \in WordsOf(frame.raw) :
      ~CallsTo(X, frame.raw) =>
        /\ frame.err = "none"
        /\ ~Occurs(<<"eval_fun2", "(", "&", X>>, frame.func_expr)
        /\ X \notin {"e", "E"} \cup DigitWords => X \in Range(frame.pars)

====
